---- MODULE Spec2Model ----
(***************************************************************************)
(* Model of main.py of PersonalNewsAgent: module start-up, the RSS tool    *)
(* fetch_indian_market_rss, the agent invocation, send_to_telegram and     *)
(* run_agent.  Text is modelled as a sequence of one-character strings so  *)
(* that slicing, joining, trimming, lower-casing and substring tests are   *)
(* computed as Python computes them.  A code point outside ASCII is one    *)
(* element written "U+XXXX".                                               *)
(***************************************************************************)
EXTENDS Integers, Sequences, FiniteSets, TLC

VARIABLES
    env,           \* TELEGRAM_TOKEN, CHAT_ID, GROQ_API_KEY after load_dotenv()
    pc,            \* position of the process
    current_date,  \* run_agent's current_date
    agent,         \* state of agent_executor.invoke
    iterations,    \* tool steps the agent runtime has taken
    observation,   \* the value the tool returned last to the agent
    only_sentinel, \* every value the tool returned in this run was the sentinel
    response,      \* what agent_executor.invoke returned
    exc,           \* text of the exception caught by run_agent
    sent,          \* requests posted to the Telegram endpoint, in order
    log,           \* lines printed
    feeds,         \* the two feeds the fetcher is applied to
    fetched        \* result of that application

vars == <<env, pc, current_date, agent, iterations, observation, only_sentinel,
          response, exc, sent, log, feeds, fetched>>

(* ------------------------------ bounds --------------------------------- *)

\* longest feed the fetcher is applied to on its own (more than the slice)
MaxEntries == 7

\* longest feed served to the tool while the agent runs
RunMaxEntries == 2

\* how far the longest exception text exceeds the truncation limit
ErrOver == 30

(* ------------------------- program constants --------------------------- *)

\* feed.entries[:6]
EntryLimit == 6

\* desc[:300]
ContentLimit == 300

\* str(e)[:200]
ErrorLimit == 200

\* AgentExecutor(..., max_iterations=5)
max_iterations == 5

(* --------------------------- text literals ----------------------------- *)

url_livemint ==
    <<"h","t","t","p",":","/","/","l","i","v","e","m","i","n","t",".","c"
      ,"o","m","/","r","s","s","/","m","a","r","k","e","t","s">>

url_et ==
    <<"h","t","t","p","s",":","/","/","e","c","o","n","o","m","i","c","t"
      ,"i","m","e","s",".","i","n","d","i","a","t","i","m","e","s",".","c"
      ,"o","m","/","r","s","s","f","e","e","d","s","/","1","9","7","7","0"
      ,"2","1","5","0","1",".","c","m","s">>

s_livemint ==
    <<"l","i","v","e","m","i","n","t">>

s_Livemint ==
    <<"L","i","v","e","m","i","n","t">>

s_ET ==
    <<"E","T">>

s_SOURCE ==
    <<"S","O","U","R","C","E",":"," ">>

s_TITLE ==
    <<"\n","T","I","T","L","E",":"," ">>

s_LINK ==
    <<"\n","L","I","N","K",":"," ">>

s_CONTENT ==
    <<"\n","C","O","N","T","E","N","T",":"," ">>

s_DIVIDER ==
    <<"\n","-","-","-">>

NO_CURRENT_NEWS_FOUND ==
    <<"N","o"," ","c","u","r","r","e","n","t"," ","n","e","w","s"," ","f"
      ,"o","u","n","d",".">>

s_no_news ==
    <<"n","o"," ","n","e","w","s">>

s_no_current_news ==
    <<"n","o"," ","c","u","r","r","e","n","t"," ","n","e","w","s">>

s_notice_head ==
    <<"U+26A0","U+FE0F"," ","<","b",">","N","o","t","i","c","e",":","<","/"
      ,"b",">"," ","N","o"," ","s","i","g","n","i","f","i","c","a","n","t"
      ," ","m","a","r","k","e","t"," ","n","e","w","s"," ","f","o","u","n"
      ,"d"," ","i","n"," ","t","h","e"," ","R","S","S"," ","f","e","e","d"
      ,"s"," ","f","o","r"," ">>

s_header ==
    <<"U+1F4CA"," ","<","b",">","M","a","r","k","e","t"," ","I","n","t","e"
      ,"l","l","i","g","e","n","c","e"," ","R","e","p","o","r","t","<","/"
      ,"b",">","\n">>

s_alert_head ==
    <<"U+274C"," ","<","b",">","S","y","s","t","e","m"," ","E","r","r","o"
      ,"r"," ","A","l","e","r","t","<","/","b",">","\n","\n","<","b",">","D"
      ,"a","t","e",":","<","/","b",">"," ">>

s_alert_detail ==
    <<"\n","<","b",">","E","r","r","o","r"," ","D","e","t","a","i","l",":"
      ,"<","/","b",">"," ","<","c","o","d","e",">">>

s_alert_tail ==
    <<"<","/","c","o","d","e",">","\n","\n","P","l","e","a","s","e"," ","c"
      ,"h","e","c","k"," ","G","i","t","H","u","b"," ","A","c","t","i","o"
      ,"n","s"," ","l","o","g","s"," ","f","o","r"," ","d","e","t","a","i"
      ,"l","s",".">>

s_System_Error_Alert ==
    <<"S","y","s","t","e","m"," ","E","r","r","o","r"," ","A","l","e","r"
      ,"t">>

s_Market_Intelligence_Report ==
    <<"M","a","r","k","e","t"," ","I","n","t","e","l","l","i","g","e","n"
      ,"c","e"," ","R","e","p","o","r","t">>

s_http_error ==
    <<"4","0","3"," ","C","l","i","e","n","t"," ","E","r","r","o","r",":"
      ," ","F","o","r","b","i","d","d","e","n"," ","f","o","r"," ","u","r"
      ,"l">>

s_strip_error ==
    <<"'","N","o","n","e","T","y","p","e","'"," ","o","b","j","e","c","t"
      ," ","h","a","s"," ","n","o"," ","a","t","t","r","i","b","u","t","e"
      ," ","'","s","t","r","i","p","'">>

s_agent_stopped ==
    <<"A","g","e","n","t"," ","s","t","o","p","p","e","d"," ","d","u","e"
      ," ","t","o"," ","i","t","e","r","a","t","i","o","n"," ","l","i","m"
      ,"i","t"," ","o","r"," ","t","i","m","e"," ","l","i","m","i","t",".">>

date_a ==
    <<"N","o","v"," ","0","1",","," ","2","0","2","6">>

date_b ==
    <<"J","a","n"," ","0","5",","," ","2","0","2","7">>

out_report ==
    <<"<","b",">","B","a","n","k","i","n","g","<","/","b",">",":"," ","H"
      ,"D","F","C"," ","u","p","."," ","<","a"," ","h","r","e","f","=","'"
      ,"L","1","'",">","R","e","a","d"," ","M","o","r","e","<","/","a",">">>

out_padded ==
    <<" "," ","<","b",">","I","T","<","/","b",">",":"," ","T","C","S"," "
      ,"f","l","a","t",".","\n"," ">>

out_blank ==
    <<" ","\n","\t"," ">>

out_no_news_upper ==
    <<"S","o","r","r","y",","," ","N","O"," ","N","E","W","S"," ","t","o"
      ,"d","a","y",".">>

out_newsworthy ==
    <<"N","o","t","h","i","n","g","."," ","N","o"," ","n","e","w","s","w"
      ,"o","r","t","h","y"," ","i","t","e","m","s",".">>

out_near_miss ==
    <<"N","o"," ","n","e","w"," ","s","t","o","r","i","e","s"," ","o","n"
      ," ","F","I","I"," ","f","l","o","w","s",".">>

out_relay ==
    <<"T","o","o","l"," ","s","a","i","d",":"," ","N","o"," ","C","u","r"
      ,"r","e","n","t"," ","N","e","w","s"," ","f","o","u","n","d","."," ">>

(* --------------------------- text operators ---------------------------- *)

Min(S) == CHOOSE x \in S : \A y \in S : x <= y

Max(S) == CHOOSE x \in S : \A y \in S : x >= y

\* s[:n]
Take(s, n) == SubSeq(s, 1, IF Len(s) < n THEN Len(s) ELSE n)

\* pat in s
Contains(s, pat) ==
    \E i \in 0..(Len(s) - Len(pat)) : SubSeq(s, i + 1, i + Len(pat)) = pat

UpperCase ==
    <<"A","B","C","D","E","F","G","H","I","J","K","L","M",
      "N","O","P","Q","R","S","T","U","V","W","X","Y","Z">>

LowerCase ==
    <<"a","b","c","d","e","f","g","h","i","j","k","l","m",
      "n","o","p","q","r","s","t","u","v","w","x","y","z">>

LowerChar(c) ==
    IF \E i \in 1..26 : UpperCase[i] = c
    THEN LowerCase[CHOOSE i \in 1..26 : UpperCase[i] = c]
    ELSE c

\* s.lower()
Lower(s) == [i \in 1..Len(s) |-> LowerChar(s[i])]

Whitespace == {" ", "\t", "\n", "\r", "\f"}

\* s.strip()
Strip(s) ==
    LET keep == {i \in 1..Len(s) : s[i] \notin Whitespace}
    IN  IF keep = {} THEN <<>> ELSE SubSeq(s, Min(keep), Max(keep))

RECURSIVE Join(_, _)
\* sep.join(items)
Join(sep, items) ==
    IF Len(items) = 0 THEN <<>>
    ELSE IF Len(items) = 1 THEN items[1]
    ELSE items[1] \o sep \o Join(sep, Tail(items))

RECURSIVE StripTags(_, _)
\* BeautifulSoup(html, "html.parser").get_text(): the text outside the tags
StripTags(s, i) ==
    IF i > Len(s) THEN <<>>
    ELSE IF s[i] = "<" /\ \E j \in (i + 1)..Len(s) : s[j] = ">"
         THEN StripTags(s, Min({j \in (i + 1)..Len(s) : s[j] = ">"}) + 1)
         ELSE <<s[i]>> \o StripTags(s, i + 1)

get_text(html) == StripTags(html, 1)

Digits == <<"0","1","2","3","4","5","6","7","8","9">>

Digit(n) == Digits[(n % 10) + 1]

(* ------------------------------ feeds ---------------------------------- *)
(* What feedparser.parse(url) yields for one URL: it raises, or it returns *)
(* a feed whose entries may lack a title, a link or a description.         *)

entry_description(j) ==
    IF j % 3 = 0 THEN <<>>
    ELSE <<"<","p",">","D">> \o <<Digit(j)>> \o <<"<","b","r","/",">">>
         \o <<"<","b",">","x","<","/","b",">","<","/","p",">">>

\* entry j of a feed; missing names the attribute the entry lacks
MkEntry(j, missing) ==
    [has_title       |-> missing # "title",
     title           |-> <<"T", Digit(j)>>,
     has_link        |-> missing # "link",
     link            |-> <<"L", Digit(j)>>,
     has_description |-> j % 3 # 0,
     description     |-> entry_description(j)]

\* a feed of n entries whose entry number bad (0: none) lacks an attribute
MkFeed(n, bad, missing) ==
    [raises  |-> FALSE,
     entries |-> [j \in 1..n |-> MkEntry(j, IF j = bad THEN missing ELSE "none")]]

RaisingFeed == [raises |-> TRUE, entries |-> <<>>]

FeedsOf(maxN) ==
    {RaisingFeed}
    \cup {MkFeed(n, 0, "none") : n \in 0..maxN}
    \cup UNION {{MkFeed(n, b, m) : b \in 1..n, m \in {"title", "link"}} : n \in 1..maxN}

\* one feed per URL of rss_urls, in the order of rss_urls
FeedWorlds(maxN) == [1..2 -> FeedsOf(maxN)]

Queries == {<<>>, <<"n","e","w","s">>}

(* ---------------------- fetch_indian_market_rss ------------------------ *)

rss_urls == <<url_livemint, url_et>>

\* source = "Livemint" if "livemint" in url else "ET"
source_label(url) == IF Contains(url, s_livemint) THEN s_Livemint ELSE s_ET

\* entry.get('description', '')
entry_get_description(entry) ==
    IF entry.has_description THEN entry.description ELSE <<>>

\* entry.title and entry.link raise AttributeError on an entry without them
entry_raises(entry) == ~entry.has_title \/ ~entry.has_link

\* f"SOURCE: {source}\nTITLE: {entry.title}\nLINK: {entry.link}\nCONTENT: {desc[:300]}\n---"
format_record(source, entry) ==
    s_SOURCE \o source \o s_TITLE \o entry.title \o s_LINK \o entry.link
    \o s_CONTENT \o Take(get_text(entry_get_description(entry)), ContentLimit)
    \o s_DIVIDER

\* variant: the whole feed, without the slice
first_entries_unsliced(entries) == entries

\* feed.entries[:6]
first_entries(entries) == Take(entries, EntryLimit)

RECURSIVE append_entries(_, _, _, _)
\* the inner for loop from entry i on: appends to news_items until an entry raises
append_entries(entries, source, news_items, i) ==
    IF i > Len(entries) THEN [news_items |-> news_items, raised |-> FALSE]
    ELSE IF entry_raises(entries[i]) THEN [news_items |-> news_items, raised |-> TRUE]
    ELSE append_entries(entries, source,
                        Append(news_items, format_record(source, entries[i])), i + 1)

\* variant: no try/except around the body, the exception reaches the caller
process_source_uncaught(feed, url, news_items) ==
    LET r == IF feed.raises
             THEN [news_items |-> news_items, raised |-> TRUE]
             ELSE append_entries(first_entries(feed.entries), source_label(url),
                                 news_items, 1)
    IN  [news_items |-> r.news_items, escaped |-> r.raised]

\* variant: a source that raises leaves nothing behind
process_source_discard(feed, url, news_items) ==
    LET r == IF feed.raises
             THEN [news_items |-> news_items, raised |-> TRUE]
             ELSE append_entries(first_entries(feed.entries), source_label(url),
                                 news_items, 1)
    IN  [news_items |-> IF r.raised THEN news_items ELSE r.news_items,
         escaped    |-> FALSE]

\* the body of the outer loop for one url: try ... except: continue
\* (the bare except lets no exception escape; what was appended stays)
process_source(feed, url, news_items) ==
    LET r == IF feed.raises
             THEN [news_items |-> news_items, raised |-> TRUE]
             ELSE append_entries(first_entries(feed.entries), source_label(url),
                                 news_items, 1)
    IN  [news_items |-> r.news_items, escaped |-> FALSE]

RECURSIVE fetch_loop(_, _, _)
\* for url in rss_urls, from url number u on
fetch_loop(fs, u, news_items) ==
    IF u > Len(rss_urls) THEN [news_items |-> news_items, raised |-> FALSE]
    ELSE LET r == process_source(fs[u], rss_urls[u], news_items)
         IN  IF r.escaped THEN [news_items |-> r.news_items, raised |-> TRUE]
             ELSE fetch_loop(fs, u + 1, r.news_items)

\* variant: the join without the fallback
fetch_return_joined(news_items) == Join(<<"\n">>, news_items)

\* "\n".join(news_items) if news_items else "No current news found."
fetch_return(news_items) ==
    IF news_items # <<>> THEN Join(<<"\n">>, news_items) ELSE NO_CURRENT_NEWS_FOUND

\* the tool: news_items at the return statement, the value returned, and
\* whether an exception reached the caller instead
fetch_indian_market_rss(query, fs) ==
    LET r == fetch_loop(fs, 1, <<>>)
    IN  [news_items |-> r.news_items,
         ret        |-> IF r.raised THEN <<>> ELSE fetch_return(r.news_items),
         raised     |-> r.raised]

(* --------------------------- environment ------------------------------- *)

\* os.getenv gives None for an unset variable, else its text
None == "<None>"

EnvValues == {None, "", "secret"}

\* not value
Falsy(value) == value = None \/ value = ""

\* datetime.now().strftime("%b %d, %Y")
Dates == {date_a, date_b}

(* --------------------------- fetcher alone ----------------------------- *)

NotFetched == [called |-> FALSE, news_items |-> <<>>, ret |-> <<>>, raised |-> FALSE]

Idle ==
    /\ current_date = <<>>
    /\ agent = "idle"
    /\ iterations = 0
    /\ observation = <<>>
    /\ only_sentinel = TRUE
    /\ response = [has_output |-> FALSE, is_str |-> TRUE, output |-> <<>>]
    /\ exc = <<>>
    /\ sent = <<>>
    /\ log = <<>>

FetchInit ==
    /\ Idle
    /\ env = [TELEGRAM_TOKEN |-> "secret", CHAT_ID |-> "secret", GROQ_API_KEY |-> "secret"]
    /\ pc = "fetch_ready"
    /\ feeds \in FeedWorlds(MaxEntries)
    /\ fetched = NotFetched

\* one call of the tool on the feeds of the state
FetchCall ==
    /\ pc = "fetch_ready"
    /\ \E query \in Queries :
         LET r == fetch_indian_market_rss(query, feeds)
         IN  fetched' = [called |-> TRUE, news_items |-> r.news_items,
                         ret |-> r.ret, raised |-> r.raised]
    /\ pc' = "fetch_returned"
    /\ UNCHANGED <<env, current_date, agent, iterations, observation, only_sentinel,
                   response, exc, sent, log, feeds>>

FetchNext == FetchCall

FetchSpec == FetchInit /\ [][FetchNext]_vars

(* ----------------------------- start-up -------------------------------- *)

\* variant: only an unset variable is rejected
startup_check_none_only(e) == e.TELEGRAM_TOKEN = None \/ e.CHAT_ID = None

\* if not TELEGRAM_TOKEN or not CHAT_ID
startup_check_fails(e) == Falsy(e.TELEGRAM_TOKEN) \/ Falsy(e.CHAT_ID)

Init ==
    /\ Idle
    /\ pc = "startup"
    /\ env \in [TELEGRAM_TOKEN : EnvValues, CHAT_ID : EnvValues, GROQ_API_KEY : EnvValues]
    /\ feeds = <<RaisingFeed, RaisingFeed>>
    /\ fetched = NotFetched

\* load_dotenv(), the three os.getenv and the check that raises ValueError
ModuleStartup ==
    /\ pc = "startup"
    /\ IF startup_check_fails(env)
       THEN /\ pc' = "crashed"
            /\ log' = Append(log, "ValueError")
       ELSE /\ pc' = "llm_init"
            /\ log' = log
    /\ UNCHANGED <<env, current_date, agent, iterations, observation, only_sentinel,
                   response, exc, sent, feeds, fetched>>

\* ChatGroq(...), the prompt, the agent and the executor are built; the
\* provider client may reject an unset key here, at construction
BuildAgent ==
    /\ pc = "llm_init"
    /\ \/ /\ pc' = "main"
          /\ log' = log
       \/ /\ env.GROQ_API_KEY = None
          /\ pc' = "crashed"
          /\ log' = Append(log, "GroqError")
    /\ UNCHANGED <<env, current_date, agent, iterations, observation, only_sentinel,
                   response, exc, sent, feeds, fetched>>

(* ------------------------- the agent runtime --------------------------- *)

\* texts the model may give as its final answer
FixedOutputs ==
    {<<>>, out_blank, out_report, out_padded, out_no_news_upper,
     out_newsworthy, out_near_miss, out_relay}

\* what invoke may return: an output, no output key, or an output that is
\* not a string
Responses(obs) ==
    {[has_output |-> TRUE, is_str |-> TRUE, output |-> o] : o \in FixedOutputs \cup obs}
    \cup {[has_output |-> FALSE, is_str |-> TRUE, output |-> <<>>],
          [has_output |-> TRUE, is_str |-> FALSE, output |-> <<>>]}

\* an exception text of n characters
ErrText(n) == [i \in 1..n |-> Digit(i)]

ErrLens == {0, 3, ErrorLimit - 1, ErrorLimit, ErrorLimit + 1, ErrorLimit + ErrOver}

Errors == {ErrText(n) : n \in ErrLens}

\* print(...) and current_date = datetime.now().strftime(...), then invoke
RunAgentStart ==
    /\ pc = "main"
    /\ \E d \in Dates : current_date' = d
    /\ log' = Append(log, "starting")
    /\ agent' = "running"
    /\ pc' = "invoke"
    /\ UNCHANGED <<env, iterations, observation, only_sentinel, response, exc, sent,
                   feeds, fetched>>

\* the model can be reached only with a key
ModelAnswers == env.GROQ_API_KEY = "secret"

\* what a call of the tool by the runtime can give, over the feeds served
ToolResults ==
    {fetch_indian_market_rss(query, w) :
        query \in Queries, w \in FeedWorlds(RunMaxEntries)}

\* one tool step: the model asks for the tool, the runtime calls it
AgentCallTool ==
    /\ pc = "invoke" /\ agent = "running"
    /\ ModelAnswers
    /\ iterations < max_iterations
    /\ \E r \in ToolResults :
         /\ ~r.raised
         /\ observation' = r.ret
         /\ only_sentinel' = (only_sentinel /\ r.ret = NO_CURRENT_NEWS_FOUND)
    /\ iterations' = iterations + 1
    /\ UNCHANGED <<env, pc, current_date, agent, response, exc, sent, log, feeds, fetched>>

\* the model gives its final answer
AgentFinish ==
    /\ pc = "invoke" /\ agent = "running"
    /\ ModelAnswers
    /\ iterations < max_iterations
    /\ \E r \in Responses(IF iterations > 0 THEN {observation} ELSE {}) : response' = r
    /\ agent' = "returned"
    /\ UNCHANGED <<env, pc, current_date, iterations, observation, only_sentinel,
                   exc, sent, log, feeds, fetched>>

\* max_iterations=5 reached: the runtime stops and returns its fixed text
AgentStopped ==
    /\ pc = "invoke" /\ agent = "running"
    /\ iterations >= max_iterations
    /\ response' = [has_output |-> TRUE, is_str |-> TRUE, output |-> s_agent_stopped]
    /\ agent' = "returned"
    /\ UNCHANGED <<env, pc, current_date, iterations, observation, only_sentinel,
                   exc, sent, log, feeds, fetched>>

\* invoke raises: provider error, malformed tool call, iteration cap
AgentRaise ==
    /\ pc = "invoke" /\ agent = "running"
    /\ \E e \in Errors : exc' = e
    /\ agent' = "raised"
    /\ UNCHANGED <<env, pc, current_date, iterations, observation, only_sentinel,
                   response, sent, log, feeds, fetched>>

(* -------------------------- send_to_telegram --------------------------- *)

\* what requests.post and raise_for_status may do
Outcomes == {"ok", "http_error", "transport_error"}

\* the form posted to https://api.telegram.org/bot<TELEGRAM_TOKEN>/sendMessage
payload(message, outcome) ==
    [token                    |-> env.TELEGRAM_TOKEN,
     chat_id                  |-> env.CHAT_ID,
     text                     |-> message,
     parse_mode               |-> "HTML",
     disable_web_page_preview |-> TRUE,
     outcome                  |-> outcome]

\* variant: the failure is raised again to the caller
send_to_telegram_reraise(message, outcome) ==
    [requests |-> <<payload(message, outcome)>>,
     printed  |-> <<IF outcome = "ok" THEN "telegram_ok" ELSE "telegram_error">>,
     raised   |-> outcome # "ok",
     error    |-> IF outcome = "ok" THEN <<>> ELSE s_http_error]

\* variant: a failed request is posted a second time
send_to_telegram_retry(message, outcome) ==
    [requests |-> IF outcome = "ok" THEN <<payload(message, outcome)>>
                  ELSE <<payload(message, outcome), payload(message, outcome)>>,
     printed  |-> <<IF outcome = "ok" THEN "telegram_ok" ELSE "telegram_error">>,
     raised   |-> FALSE,
     error    |-> <<>>]

\* one POST; except Exception prints the failure and returns
send_to_telegram(message, outcome) ==
    [requests |-> <<payload(message, outcome)>>,
     printed  |-> <<IF outcome = "ok" THEN "telegram_ok" ELSE "telegram_error">>,
     raised   |-> FALSE,
     error    |-> <<>>]

(* ------------------------------ run_agent ------------------------------ *)

\* variant: the test without lower()
is_no_news_case_sensitive(output) ==
    \/ output = <<>>
    \/ Contains(output, s_no_news)
    \/ Contains(output, s_no_current_news)

\* variant: the test without its third operand
is_no_news_two_operands(output) ==
    \/ output = <<>>
    \/ Contains(Lower(output), s_no_news)

\* not output or "no news" in output.lower() or "no current news" in output.lower()
is_no_news(output) ==
    \/ output = <<>>
    \/ Contains(Lower(output), s_no_news)
    \/ Contains(Lower(output), s_no_current_news)

\* the notice that replaces the report
notice(date) == s_notice_head \o date \o <<".">>

report_body(output, date) == IF is_no_news(output) THEN notice(date) ELSE output

\* f"📊 <b>Market Intelligence Report</b>\n{current_date}\n\n{report_body}"
final_message(date, body) == s_header \o date \o <<"\n", "\n">> \o body

\* variant: the whole exception text
error_msg_untruncated(date, e) ==
    s_alert_head \o date \o s_alert_detail \o e \o s_alert_tail

\* the alert with str(e)[:200]
error_msg(date, e) ==
    s_alert_head \o date \o s_alert_detail \o Take(e, ErrorLimit) \o s_alert_tail

\* response.get('output', '')
response_get_output(r) == IF r.has_output THEN r.output ELSE <<>>

\* the except branch: build the alert, print, send it
except_branch(date, e, outcome) ==
    LET s == send_to_telegram(error_msg(date, e), outcome)
    IN  [requests |-> s.requests,
         printed  |-> <<"critical">> \o s.printed,
         raised   |-> s.raised]

\* the try body after invoke has returned, and the except branch when the
\* body raises
RunAgentTry ==
    /\ pc = "invoke" /\ agent = "returned"
    /\ \E o1 \in Outcomes :
         LET strip_raises == response.has_output /\ ~response.is_str
             output       == Strip(response_get_output(response))
             message      == final_message(current_date, report_body(output, current_date))
             s            == send_to_telegram(message, o1)
             body_raises  == strip_raises \/ s.raised
             body_exc     == IF strip_raises THEN s_strip_error ELSE s.error
             body_posts   == IF strip_raises THEN <<>> ELSE s.requests
             body_printed == IF strip_raises THEN <<>> ELSE s.printed
         IN  IF ~body_raises
             THEN /\ sent' = sent \o body_posts
                  /\ log' = log \o body_printed
                  /\ exc' = exc
                  /\ pc' = "done"
             ELSE \E o2 \in Outcomes :
                    LET x == except_branch(current_date, body_exc, o2)
                    IN  /\ sent' = sent \o body_posts \o x.requests
                        /\ log' = log \o body_printed \o x.printed
                        /\ exc' = body_exc
                        /\ pc' = IF x.raised THEN "crashed" ELSE "done"
    /\ UNCHANGED <<env, current_date, agent, iterations, observation, only_sentinel,
                   response, feeds, fetched>>

\* invoke raised: the except branch
RunAgentExcept ==
    /\ pc = "invoke" /\ agent = "raised"
    /\ \E o \in Outcomes :
         LET x == except_branch(current_date, exc, o)
         IN  /\ sent' = sent \o x.requests
             /\ log' = log \o x.printed
             /\ pc' = IF x.raised THEN "crashed" ELSE "done"
    /\ UNCHANGED <<env, current_date, agent, iterations, observation, only_sentinel,
                   response, exc, feeds, fetched>>

Next ==
    \/ ModuleStartup
    \/ BuildAgent
    \/ RunAgentStart
    \/ AgentCallTool
    \/ AgentFinish
    \/ AgentStopped
    \/ AgentRaise
    \/ RunAgentTry
    \/ RunAgentExcept

Spec == Init /\ [][Next]_vars

(* ------------------- properties of the feed fetcher -------------------- *)

\* min(6, n)
AtMostSix(n) == IF n < 6 THEN n ELSE 6

\* the entries of source u that the loop looks at
Looked(u) == AtMostSix(Len(feeds[u].entries))

\* the label the records of source u carry
LabelOf(u) == IF u = 1 THEN s_Livemint ELSE s_ET

\* the record of entry j of source u
RecordOf(u, j) ==
    LET e == feeds[u].entries[j]
    IN  s_SOURCE \o LabelOf(u) \o s_TITLE \o e.title \o s_LINK \o e.link
        \o s_CONTENT \o Take(get_text(entry_get_description(e)), ContentLimit)
        \o s_DIVIDER

\* the entries among the first six of source u that lack a title or a link
BadAmongLooked(u) ==
    {j \in 1..Looked(u) : ~feeds[u].entries[j].has_title \/ ~feeds[u].entries[j].has_link}

\* processing source u raises: at the parse, or at one of its first six entries
SourceFails(u) == feeds[u].raises \/ BadAmongLooked(u) # {}

\* the records of the first entries of source u
CleanRecords(u) == [j \in 1..Looked(u) |-> RecordOf(u, j)]

\* the number of records source u produces before it raises, if it does
ProducedBy(u) ==
    IF feeds[u].raises THEN 0
    ELSE IF BadAmongLooked(u) # {} THEN Min(BadAmongLooked(u)) - 1
    ELSE Looked(u)

\* the records source u leaves in the batch
KeptRecords(u) == [j \in 1..ProducedBy(u) |-> RecordOf(u, j)]

\* block occurs in items as consecutive elements
HasBlock(items, block) ==
    \E k \in 0..(Len(items) - Len(block)) : SubSeq(items, k + 1, k + Len(block)) = block

\* C2: when one source raises and the other is processed without error, the
\* call returns normally and the batch holds every record of the other
\* source (its first six entries), whichever of the two is the failing one.
C2_PartialFailureIsolation ==
    fetched.called =>
      /\ ~fetched.raised
      /\ \A u \in 1..2 :
           (SourceFails(u) /\ ~SourceFails(3 - u)) =>
             /\ HasBlock(fetched.news_items, CleanRecords(3 - u))
             /\ Contains(fetched.ret, Join(<<"\n">>, CleanRecords(3 - u)))

C2_Witness ==
    /\ fetched.called
    /\ feeds[1].raises
    /\ ~SourceFails(2)
    /\ Len(feeds[2].entries) > 6
    /\ Len(fetched.news_items) = 6

\* C3: two feeds processed without error give min(6,n1) + min(6,n2) records:
\* those of the first URL, in feed order, then those of the second.
C3_CountAndOrder ==
    (fetched.called /\ ~SourceFails(1) /\ ~SourceFails(2)) =>
      /\ Len(fetched.news_items)
           = AtMostSix(Len(feeds[1].entries)) + AtMostSix(Len(feeds[2].entries))
      /\ fetched.news_items = CleanRecords(1) \o CleanRecords(2)
      /\ (Len(feeds[1].entries) >= 6 /\ Len(feeds[2].entries) >= 6)
           => Len(fetched.news_items) = 12

C3_Witness ==
    /\ fetched.called
    /\ ~SourceFails(1) /\ ~SourceFails(2)
    /\ Len(feeds[1].entries) > 6 /\ Len(feeds[2].entries) > 6
    /\ Len(fetched.news_items) = 12
    /\ feeds[1].entries[1].link = feeds[2].entries[1].link

\* C4: the value returned is the sentinel exactly when no source produced a
\* record; with one record or more it is the records joined by newlines,
\* each ending in the divider, and differs from the sentinel.
C4_SentinelIffNoRecords ==
    fetched.called =>
      /\ (fetched.ret = NO_CURRENT_NEWS_FOUND) <=> (ProducedBy(1) + ProducedBy(2) = 0)
      /\ (fetched.ret = NO_CURRENT_NEWS_FOUND) <=> (fetched.news_items = <<>>)
      /\ fetched.news_items # <<>> =>
           /\ fetched.ret = Join(<<"\n">>, fetched.news_items)
           /\ SubSeq(fetched.ret, Len(fetched.ret) - 3, Len(fetched.ret)) = s_DIVIDER

C4_Witness ==
    /\ fetched.called
    /\ feeds[1].raises
    /\ Len(feeds[2].entries) = 3 /\ ~feeds[2].entries[1].has_title
    /\ fetched.ret = NO_CURRENT_NEWS_FOUND

\* C9 as stated: the batch is exactly the records of the sources that were
\* processed without error.
C9_OnlyCleanSources ==
    fetched.called =>
      fetched.news_items
        = (IF SourceFails(1) THEN <<>> ELSE CleanRecords(1))
          \o (IF SourceFails(2) THEN <<>> ELSE CleanRecords(2))

\* C9 amended: a source that raises contributes the records of its entries
\* before the failing one (none when the parse raises); the batch is those
\* records of the first source followed by those of the second.
C9_RecordsBeforeFailureKept ==
    fetched.called =>
      fetched.news_items = KeptRecords(1) \o KeptRecords(2)

C9_Witness ==
    /\ fetched.called
    /\ BadAmongLooked(1) # {} /\ Min(BadAmongLooked(1)) = 3
    /\ ~SourceFails(2) /\ Len(feeds[2].entries) = 2
    /\ Len(fetched.news_items) = 4

(* --------------------- properties of the whole run --------------------- *)

\* the tool was called in this run and returned the sentinel every time
ToolGaveSentinel == iterations > 0 /\ only_sentinel

\* run_agent has been entered
RunStarted == agent # "idle"

\* the header, the run date and the notice
NoticeMessage == s_header \o current_date \o <<"\n", "\n">> \o s_notice_head \o current_date \o <<".">>

\* the trimmed output of the agent
TrimmedOutput == Strip(IF response.has_output THEN response.output ELSE <<>>)

\* invoke returned and the try body ran to its end
ReportPath == agent = "returned" /\ response.is_str

\* C1: a run of run_agent never posts twice and has posted exactly once
\* when it ends, whether the agent returned a report, returned nothing,
\* raised, or the delivery failed; and once started it ends normally.
C1_ExactlyOneDelivery ==
    /\ Len(sent) <= 1
    /\ pc = "done" => Len(sent) = 1
    /\ RunStarted => pc \in {"invoke", "done"}

C1_Witness ==
    /\ pc = "done"
    /\ agent = "returned" /\ response.is_str
    /\ Len(sent) = 1
    /\ sent[1].outcome = "http_error"
    /\ Contains(sent[1].text, s_Market_Intelligence_Report)

RelaysSentinel ==
    /\ response.has_output /\ response.is_str
    /\ Contains(Lower(response.output), Lower(NO_CURRENT_NEWS_FOUND))

C6_ErrorAlert ==
    (pc = "done" /\ agent = "raised") =>
      /\ Len(sent) = 1
      /\ Contains(sent[1].text, s_System_Error_Alert)
      /\ Contains(sent[1].text, current_date)
      /\ Contains(sent[1].text, SubSeq(exc, 1, IF Len(exc) < 200 THEN Len(exc) ELSE 200))
      /\ Len(exc) > 200 => ~Contains(sent[1].text, SubSeq(exc, 1, 201))
      /\ Len(sent[1].text)
           = Len(s_alert_head) + Len(current_date) + Len(s_alert_detail)
             + (IF Len(exc) < 200 THEN Len(exc) ELSE 200) + Len(s_alert_tail)
      /\ \A i \in 1..Len(sent) : ~Contains(sent[i].text, s_Market_Intelligence_Report)

C6_Witness ==
    /\ pc = "done" /\ agent = "raised"
    /\ Len(exc) > 200
    /\ Len(sent) = 1
    /\ Contains(sent[1].text, s_System_Error_Alert)

\* C7: a request that fails (HTTP status or transport) is the only request
\* of the run: it is logged once, nothing is raised to run_agent, which
\* ends normally, and it is not posted again.
C7_FailedDeliverySwallowed ==
    \A i \in 1..Len(sent) :
       sent[i].outcome # "ok" =>
         /\ pc = "done"
         /\ i = Len(sent)
         /\ Cardinality({k \in 1..Len(sent) : sent[k].text = sent[i].text}) = 1
         /\ Cardinality({k \in 1..Len(log) : log[k] = "telegram_error"}) = 1
         /\ log[Len(log)] = "telegram_error"

C7_Witness ==
    /\ pc = "done"
    /\ Len(sent) = 1
    /\ sent[1].outcome = "transport_error"
    /\ log[Len(log)] = "telegram_error"

\* C8: with TELEGRAM_TOKEN or CHAT_ID unset or empty the process stops at
\* the start-up check with ValueError: no tool call, no agent run, no
\* request; GROQ_API_KEY has no part in that check.
C8_StartupCheck ==
    /\ (Falsy(env.TELEGRAM_TOKEN) \/ Falsy(env.CHAT_ID)) =>
         /\ pc \in {"startup", "crashed"}
         /\ pc = "crashed" => log = <<"ValueError">>
         /\ agent = "idle" /\ iterations = 0 /\ observation = <<>> /\ sent = <<>>
    /\ (~Falsy(env.TELEGRAM_TOKEN) /\ ~Falsy(env.CHAT_ID)) =>
         /\ \A k \in 1..Len(log) : log[k] # "ValueError"
         /\ pc # "startup" => pc # "crashed" \/ env.GROQ_API_KEY = None

C8_Witness ==
    /\ pc = "crashed"
    /\ env.TELEGRAM_TOKEN = "secret" /\ env.CHAT_ID = "" /\ env.GROQ_API_KEY = "secret"
    /\ log = <<"ValueError">>
    /\ sent = <<>>

\* C10: when invoke returns, the message posted is the header, the run date
\* and a body: the notice exactly when the trimmed output is empty or holds
\* "no news" or "no current news" in any letter case, else the trimmed
\* output itself; what the tool returned plays no part.
C10_BodyRule ==
    (pc = "done" /\ ReportPath) =>
      /\ Len(sent) = 1
      /\ LET body == SubSeq(sent[1].text,
                            Len(s_header) + Len(current_date) + 3, Len(sent[1].text))
             says_no_news ==
                 \/ TrimmedOutput = <<>>
                 \/ Contains(Lower(TrimmedOutput), s_no_news)
                 \/ Contains(Lower(TrimmedOutput), s_no_current_news)
         IN  /\ SubSeq(sent[1].text, 1, Len(s_header) + Len(current_date) + 2)
                  = s_header \o current_date \o <<"\n", "\n">>
             /\ (body = s_notice_head \o current_date \o <<".">>) <=> says_no_news
             /\ ~says_no_news => body = TrimmedOutput

C10_Witness ==
    /\ pc = "done" /\ ReportPath
    /\ response.output = out_no_news_upper
    /\ iterations > 0 /\ observation # NO_CURRENT_NEWS_FOUND
    /\ Len(sent) = 1 /\ sent[1].text = NoticeMessage

====
